---- MODULE Spec2Model ----
(***************************************************************************)
(* A model of the core of p2pg: the content-addressed Node and Tree of     *)
(* core/node.py, the LinearDict snapshot of core/ld.py and the chained     *)
(* HighDensityDB of core/db.py.                                            *)
(*                                                                         *)
(* Python values are modelled with their type where the code's behaviour   *)
(* depends on it: a value is a record [t |-> type, v |-> content], a byte  *)
(* string is a sequence of numbers in 0..255, and an operation that raises *)
(* yields a result whose status names the exception.                       *)
(***************************************************************************)
EXTENDS Integers, Sequences, FiniteSets, TLC

\* ------------------------------------------------------------------ bounds

\* Depth of the deepest node below a base node that is handed to a Tree.
MaxDepth == 3

\* Number of entries of the mapping a LinearDict wraps.
MaxEntries == 2

\* Size of the file of a HighDensityDB beyond which no slot is written.
MaxFile == 3

\* Number of bytes of the largest ByteArray.
MaxBytes == 2

\* Number of records of the largest snapshot file given to a bound tree.
MaxBatch == 2

\* The logical cursor of a _Data section beyond which nothing is written.
MaxData == 4

\* ------------------------------------------------------- program constants

\* len(parent) != 32: the size of a SHA-256 digest.
DigestLen == 32

\* BASE = b'b' and CHILD = b'c'.
BaseByte == 98
ChildByte == 99

\* ----------------------------------------------------------- Python values

PyNone == [t |-> "None", v |-> <<>>]
PyBytes(b) == [t |-> "bytes", v |-> b]
PyStr(s) == [t |-> "str", v |-> s]
PyInt(n) == [t |-> "int", v |-> <<n>>]
\* An object with __len__ = n whose truth value is false (the only kind of
\* parent that passes the length check of Node.__init__ and is not truthy).
PyFalsySized(n) == [t |-> "falsy", v |-> [i \in 1..n |-> 0]]
PyTypeError == [t |-> "TypeError", v |-> <<>>]

\* bool(x)
PyTruth(x) ==
    CASE x.t = "None" -> FALSE
      [] x.t = "falsy" -> FALSE
      [] x.t = "int" -> x.v[1] # 0
      [] OTHER -> Len(x.v) > 0

\* a + b on bytes: concatenation of two byte strings, a TypeError otherwise
\* (an earlier TypeError propagates).
PyAdd(a, b) ==
    IF a.t = "bytes" /\ b.t = "bytes" THEN PyBytes(a.v \o b.v) ELSE PyTypeError

\* n.to_bytes(width, 'little')
RECURSIVE ToBytesLE(_, _)
ToBytesLE(n, width) ==
    IF width = 0 THEN <<>> ELSE <<n % 256>> \o ToBytesLE(n \div 256, width - 1)

\* int.from_bytes(b, 'little')
RECURSIVE FromBytesLE(_)
FromBytesLE(b) ==
    IF b = <<>> THEN 0 ELSE b[1] + 256 * FromBytesLE(Tail(b))

\* str.encode('utf-8') on a sequence of code points below 2048.
RECURSIVE Utf8Encode(_)
Utf8Encode(s) ==
    IF s = <<>> THEN <<>>
    ELSE (IF s[1] < 128 THEN <<s[1]>>
          ELSE <<192 + (s[1] \div 64), 128 + (s[1] % 64)>>) \o Utf8Encode(Tail(s))

\* stream.read(n) at offset pos (0-based) of a byte string: at most n bytes.
ReadAt(b, pos, n) ==
    SubSeq(b, pos + 1, IF pos + n <= Len(b) THEN pos + n ELSE Len(b))

\* sha256(x).digest(): a 32-byte function of x.  The model folds x over 32
\* positions with odd weights, which is collision-free on the inputs of this
\* model (ShaCollisionFree).
Sha256(x) ==
    [i \in 1..DigestLen |->
        ( (IF i <= Len(x) THEN x[i] + 1 ELSE 0)
        + 3 * (IF i + DigestLen <= Len(x) THEN x[i + DigestLen] + 1 ELSE 0)
        + 5 * (IF i + 2 * DigestLen <= Len(x) THEN x[i + 2 * DigestLen] + 1 ELSE 0)
        ) % 256]

\* ------------------------------------------------------------------- Node

BASE == <<BaseByte>>
CHILD == <<ChildByte>>

NoNode == [flag |-> <<>>, parent |-> <<>>, len |-> <<>>, msg |-> <<>>, sha |-> <<>>]

Raise(e) == [status |-> e, node |-> NoNode]

\* Node.__init__(msg, parent)
NodeInit(msg, parent) ==
    IF parent.t \in {"None", "int"} THEN Raise("TypeError")     \* len(None)
    ELSE IF Len(parent.v) # DigestLen THEN Raise("ValueError")
    ELSE IF msg.t # "str" THEN Raise("AttributeError")          \* bytes.encode
    ELSE LET m == Utf8Encode(msg.v) IN
         IF ~(Len(m) <= 2 ^ 16) THEN Raise("ValueError")
         ELSE LET flag == IF PyTruth(parent) THEN CHILD ELSE BASE
                  par == IF PyTruth(parent) THEN parent.v
                         ELSE [i \in 1..DigestLen |-> 0]
                  ln == ToBytesLE(Len(m), 2)
              IN [status |-> "ok",
                  node |-> [flag |-> flag, parent |-> par, len |-> ln, msg |-> m,
                            sha |-> Sha256(flag \o par \o ln \o m)]]

\* Node.parent (property)
NodeParent(n) == IF n.flag = CHILD THEN PyBytes(n.parent) ELSE PyNone

\* Node.to_bytes(): the cache holds the same bytes on every later call.
NodeToBytes(n) == n.flag \o n.parent \o n.len \o n.msg \o n.sha

\* Node.from_bytes(stream)
NodeFromBytes(stream) ==
    LET flag == ReadAt(stream, 0, 1)
        parent == IF flag = BASE THEN PyNone
                  ELSE PyBytes(ReadAt(stream, 1, DigestLen))
        length == FromBytesLE(ReadAt(stream, 1 + DigestLen, 2))
        msg == ReadAt(stream, 3 + DigestLen, length)
        sha == ReadAt(stream, 3 + DigestLen + length, DigestLen)
        hashed == PyAdd(PyAdd(PyAdd(PyBytes(flag), parent), PyInt(length)),
                        PyBytes(msg))
    IN  IF flag # BASE /\ flag # CHILD THEN Raise("DecodeError")
        ELSE IF length > 2 ^ 16 THEN Raise("DecodeError")
        ELSE IF hashed.t = "TypeError" THEN Raise("TypeError")
        ELSE IF Sha256(hashed.v) # sha THEN Raise("DecodeError")
        ELSE NodeInit(PyBytes(msg), parent)

\* ------------------------------------------------------------ Tree (data)

\* The dict operations the code uses.
EmptyDict == [k \in {} |-> NoNode]
DictPut(d, k, v) == [x \in (DOMAIN d) \cup {k} |-> IF x = k THEN v ELSE d[x]]
DictDel(d, k) == [x \in (DOMAIN d) \ {k} |-> d[x]]

\* Messages (code points): "a" and "e-acute", whose UTF-8 form is two bytes.
BaseMsgs == {<<97>>, <<233>>}
ChildMsgs == {<<97>>}

\* The nodes handed to a Tree: the base nodes and, level by level, the nodes
\* branching from them, each built by Node.__init__.
RECURSIVE PoolLevel(_)
PoolLevel(k) ==
    IF k = 0
    THEN {NodeInit(PyStr(m), PyFalsySized(DigestLen)).node : m \in BaseMsgs}
    ELSE {NodeInit(PyStr(m), PyBytes(p.sha)).node :
              p \in PoolLevel(k - 1), m \in ChildMsgs}

NodePool == UNION {PoolLevel(k) : k \in 0..MaxDepth}

\* Tree.__init__(node): the status and the node map.
TreeInitNoFlagCheck(node) ==
    [status |-> "ok", nodes |-> DictPut(EmptyDict, node.sha, node)]
TreeInit(node) ==
    IF node.flag # BASE THEN [status |-> "TypeError", nodes |-> EmptyDict]
    ELSE [status |-> "ok", nodes |-> DictPut(EmptyDict, node.sha, node)]

\* Tree.link(node) on the node map d.
TreeLinkNoCheck(d, node) == [status |-> "ok", nodes |-> DictPut(d, node.sha, node)]
TreeLinkInsertOnError(d, node) ==
    IF NodeParent(node).t = "bytes" /\ NodeParent(node).v \in DOMAIN d
    THEN [status |-> "ok", nodes |-> DictPut(d, node.sha, node)]
    ELSE [status |-> "LinkageError", nodes |-> DictPut(d, node.sha, node)]
TreeLink(d, node) ==
    IF NodeParent(node).t = "bytes" /\ NodeParent(node).v \in DOMAIN d
    THEN [status |-> "ok", nodes |-> DictPut(d, node.sha, node)]
    ELSE [status |-> "LinkageError", nodes |-> d]

\* Tree.unlink(node) on the node map d.
TreeUnlink(d, node) ==
    IF node.sha \in DOMAIN d
    THEN [status |-> "ok", nodes |-> DictDel(d, node.sha)]
    ELSE [status |-> "KeyError", nodes |-> d]

\* One pass of the loop of Tree.retrace(node): what the generator does when
\* it is resumed with its local variable node.
RetraceStepSkipBase(d, node) ==
    IF node.sha \notin DOMAIN d THEN [status |-> "KeyError", node |-> node]
    ELSE LET parent == NodeParent(d[node.sha]) IN
         IF PyTruth(parent)
         THEN IF parent.v \in DOMAIN d
              THEN IF d[parent.v].flag = BASE
                   THEN [status |-> "stop", node |-> node]
                   ELSE [status |-> "yield", node |-> d[parent.v]]
              ELSE [status |-> "LinkageError", node |-> node]
         ELSE [status |-> "stop", node |-> node]
RetraceStepStopAtGap(d, node) ==
    IF node.sha \notin DOMAIN d THEN [status |-> "KeyError", node |-> node]
    ELSE LET parent == NodeParent(d[node.sha]) IN
         IF PyTruth(parent) /\ parent.v \in DOMAIN d
         THEN [status |-> "yield", node |-> d[parent.v]]
         ELSE [status |-> "stop", node |-> node]
RetraceStep(d, node) ==
    IF node.sha \notin DOMAIN d THEN [status |-> "KeyError", node |-> node]
    ELSE LET parent == NodeParent(d[node.sha]) IN
         IF PyTruth(parent)
         THEN IF parent.v \in DOMAIN d
              THEN [status |-> "yield", node |-> d[parent.v]]
              ELSE [status |-> "LinkageError", node |-> node]
         ELSE [status |-> "stop", node |-> node]

\* ------------------------------------------------------ LinearDict (data)

\* A dict of bytes keys and values, in its iteration order: a sequence of
\* entries with distinct keys.
MapKeys(m) == {m[i].k : i \in DOMAIN m}
MapPairs(m) == {<<m[i].k, m[i].v>> : i \in DOMAIN m}
\* d[k] = v
MapSet(m, k, v) ==
    IF k \in MapKeys(m)
    THEN [i \in DOMAIN m |-> IF m[i].k = k THEN [k |-> k, v |-> v] ELSE m[i]]
    ELSE Append(m, [k |-> k, v |-> v])

\* What iter_dump writes for the header and for one entry.
DumpHeader(m) == ToBytesLE(Len(m), 8)
DumpRecord(e) ==
    ToBytesLE(Len(e.k), 2) \o e.k \o ToBytesLE(Len(e.v), 4) \o e.v

RECURSIVE DumpRecords(_)
DumpRecords(m) ==
    IF m = <<>> THEN <<>> ELSE DumpRecord(Head(m)) \o DumpRecords(Tail(m))

\* The file after dump(): seek(0), truncate(), the header, every entry.
IterDumpAll(m) == DumpHeader(m) \o DumpRecords(m)

\* get_length(): seek(0) and read(8); where the file cursor is afterwards.
GetLengthPos(f) == IF Len(f) < 8 THEN Len(f) ELSE 8

\* One pass of the loop of iter_load with the file cursor at pos.
LoadRecordAnyValue(f, pos) ==
    LET tmp == ReadAt(f, pos, 2)
        k_len == FromBytesLE(tmp)
        p1 == pos + Len(tmp)
        k == ReadAt(f, p1, k_len)
        p2 == p1 + Len(k)
        vl == ReadAt(f, p2, 4)
        v_len == FromBytesLE(vl)
        p3 == p2 + Len(vl)
        v == ReadAt(f, p3, v_len)
    IN  IF tmp = <<>> THEN [status |-> "StopIteration", k |-> <<>>, v |-> <<>>, pos |-> p1]
        ELSE IF Len(k) # k_len
        THEN [status |-> "LoaderError", k |-> k, v |-> <<>>, pos |-> p2]
        ELSE [status |-> "entry", k |-> k, v |-> v, pos |-> p3 + Len(v)]
LoadRecord(f, pos) ==
    LET tmp == ReadAt(f, pos, 2)
        k_len == FromBytesLE(tmp)
        p1 == pos + Len(tmp)
        k == ReadAt(f, p1, k_len)
        p2 == p1 + Len(k)
        vl == ReadAt(f, p2, 4)
        v_len == FromBytesLE(vl)
        p3 == p2 + Len(vl)
        v == ReadAt(f, p3, v_len)
    IN  IF tmp = <<>> THEN [status |-> "StopIteration", k |-> <<>>, v |-> <<>>, pos |-> p1]
        ELSE IF Len(k) # k_len
        THEN [status |-> "LoaderError", k |-> k, v |-> <<>>, pos |-> p2]
        ELSE IF Len(v) # v_len
        THEN [status |-> "LoaderError", k |-> k, v |-> v, pos |-> p3 + Len(v)]
        ELSE [status |-> "entry", k |-> k, v |-> v, pos |-> p3 + Len(v)]

\* The loop of iter_load run to its end by load(), from file position pos
\* with the mapping m: how it ends, the mapping and the file position.  A
\* StopIteration raised in the body of a generator ends the iteration on an
\* interpreter without PEP 479 and is turned into a RuntimeError by one with
\* it (stopIsError).
RECURSIVE LoadLoop(_, _, _, _)
LoadLoop(f, pos, m, stopIsError) ==
    LET r == LoadRecord(f, pos) IN
    IF r.status = "entry" THEN LoadLoop(f, r.pos, MapSet(m, r.k, r.v), stopIsError)
    ELSE IF r.status = "StopIteration"
    THEN [status |-> IF stopIsError THEN "RuntimeError" ELSE "ok",
          d |-> m, pos |-> r.pos]
    ELSE [status |-> r.status, d |-> m, pos |-> r.pos]

\* load(): get_length(), self._d.clear(), then the loop.
IterLoadAll(f, stopIsError) == LoadLoop(f, GetLengthPos(f), <<>>, stopIsError)

\* ------------------------------------------------------------------ state

VARIABLES
    nd,         \* Node: a node being created, serialized, altered and decoded
    made,       \* Tree: whether Tree.__init__ has succeeded
    nodes,      \* Tree._nodes: digest -> Node
    tres,       \* Tree: the last call, its argument and how it ended
    rt,         \* Tree.retrace: the generator (its local node, what it yielded)
    pep479,     \* the interpreter turns a generator's StopIteration into an error
    file,       \* LinearDict._file: the bytes of the file
    fpos,       \* LinearDict._file: the file cursor
    ldd,        \* LinearDict._d: the wrapped mapping
    own,        \* LinearDict._d is the caller's dict ("caller") or a new one
    lres,       \* LinearDict: the last call and how it ended
    dumped,     \* the mapping the file was dumped from, and where it was cut
    lock,       \* LinearDict._lock: the thread that holds it, 0 when free
    th,         \* per thread: where it is in its call on the LinearDict
    acc,        \* the last access to the wrapped mapping: by whom, lock held
    db,         \* HighDensityDB: whether one is open, its step and key_size
    dbfile,     \* HighDensityDB.file: the bytes of the file
    dbpos,      \* HighDensityDB.file: the file cursor
    dbitem,     \* the section the last lookup returned
    dbres,      \* HighDensityDB: the last call and how it ended
    want,       \* the value last written under a key, and how far its
                \* write / close / reopen has come
    ba,         \* ByteArray: the bytes of the buffer
    bres,       \* ByteArray: the last call of bit() and how it ended
    bound,      \* Tree.bind_ld has returned a LinearDict (file, fpos, ldd, own)
    snap,       \* the records of the snapshot file given to the bound tree
    sec,        \* a _Data section of the store: its fields
    held        \* HighDensityDB._item: None or the section it holds

nodeVars == <<nd>>
treeVars == <<made, nodes, tres, rt>>
ldVars == <<pep479, file, fpos, ldd, own, lres, dumped>>
thVars == <<lock, th, acc>>
dbVars == <<db, dbfile, dbpos, dbitem, dbres, want>>
bitVars == <<ba, bres>>
bindVars == <<bound, snap>>
secVars == <<sec, held>>
vars ==
    <<nodeVars, treeVars, ldVars, thVars, dbVars, bitVars, bindVars, secVars>>

otherThanNode == <<treeVars, ldVars, thVars, dbVars, bitVars, bindVars, secVars>>
otherThanTree == <<nodeVars, ldVars, thVars, dbVars, bitVars, bindVars, secVars>>
otherThanLd == <<nodeVars, treeVars, thVars, dbVars, bitVars, bindVars, secVars>>
otherThanThreads == <<nodeVars, treeVars, dbVars, bitVars, bindVars, secVars>>
otherThanDb == <<nodeVars, treeVars, ldVars, thVars, bitVars, bindVars, secVars>>
otherThanBits == <<nodeVars, treeVars, ldVars, thVars, dbVars, bindVars, secVars>>
otherThanBind == <<nodeVars, thVars, dbVars, bitVars, secVars>>
otherThanData == <<nodeVars, treeVars, ldVars, thVars, bitVars, bindVars>>

NoCall == [op |-> "none", arg |-> NoNode, status |-> "none"]
NoRetrace == [status |-> "none", start |-> NoNode, node |-> NoNode, out |-> <<>>]

NoWire == [created |-> Raise("none"), wire |-> <<>>, altered |-> 0,
           decoded |-> Raise("none"), arg |-> PyNone]

NodeStart == nd = NoWire

TreeStart ==
    /\ made = FALSE
    /\ nodes = EmptyDict
    /\ tres = NoCall
    /\ rt = NoRetrace

NoLdCall == [op |-> "none", status |-> "none", empty |-> TRUE]

LdStart ==
    /\ pep479 \in BOOLEAN
    /\ file = <<>>
    /\ fpos = 0
    /\ ldd = <<>>
    /\ own = "new"
    /\ lres = NoLdCall
    /\ dumped = [valid |-> FALSE, d |-> <<>>, cut |-> -1]

\* The threads that share one LinearDict: all of them read and write
\* entries, thread 1 also dumps and thread 2 also loads.
Threads == {1, 2}
Dumpers == {1}
Loaders == {2}

Idle == [pc |-> "idle", k |-> <<>>, v |-> <<>>, i |-> 0, n |-> 0]
NoAccess == [t |-> 0, op |-> "none", locked |-> TRUE]

ThreadsStart ==
    /\ lock = 0
    /\ th = [t \in Threads |-> Idle]
    /\ acc = NoAccess

NoItem == [kind |-> "none", pos |-> 0]
NoDbCall == [op |-> "none", status |-> "none", key |-> <<>>, data |-> <<>>,
             arg |-> 0]
NoWant == [phase |-> "none", key |-> <<>>, data |-> <<>>]

DbStart ==
    /\ db = [open |-> FALSE, step |-> 0, key_size |-> 0]
    /\ dbfile = <<>>
    /\ dbpos = 0
    /\ dbitem = NoItem
    /\ dbres = NoDbCall
    /\ want = NoWant

NoBitCall == [op |-> "none", n |-> 0, v |-> PyNone, status |-> "none", ret |-> PyNone]

BitsStart ==
    /\ ba = <<>>
    /\ bres = NoBitCall

NoSnap == [recs |-> <<>>, bad |-> 0]

BindStart ==
    /\ bound = FALSE
    /\ snap = NoSnap

\* float('inf')
PyInf == [t |-> "float", v |-> <<>>]

NoSection == [made |-> FALSE, pos |-> 0, cursor |-> 0, size |-> 0,
              limit |-> PyInf, next |-> PyNone]

DataStart ==
    /\ sec = NoSection
    /\ held = PyNone

Init ==
    /\ NodeStart /\ TreeStart /\ LdStart /\ ThreadsStart /\ DbStart
    /\ BitsStart /\ BindStart /\ DataStart

\* ----------------------------------------------------------- Node (steps)

\* The arguments Node() is called with: a text, and no parent, an empty
\* parent, an all-zero parent, a falsy parent of the right length or the
\* digest of a node.
NodeMsgs == {PyStr(<<>>), PyStr(<<97>>), PyStr(<<233>>), PyStr(<<97, 233>>)}
NodeParents ==
    {PyNone, PyBytes(<<>>), PyFalsySized(DigestLen),
     PyBytes([i \in 1..DigestLen |-> 0])}
    \cup {PyBytes(p.sha) : p \in PoolLevel(0) \cup PoolLevel(1)}

\* The values an altered byte takes.
AlteredBytes == {0, 1, 98, 255}

\* The positions (from 1) of the parent field and of the message field in
\* the serialized form of node n.
ParentField(n) == 2..(1 + DigestLen)
MessageField(n) == (4 + DigestLen)..(3 + DigestLen + Len(n.msg))

\* node = Node(msg, parent)
NodeCreate(msg, parent) ==
    /\ nd' = [NoWire EXCEPT !.created = NodeInit(msg, parent), !.arg = parent]
    /\ UNCHANGED otherThanNode

\* wire = node.to_bytes()
NodeSerialize ==
    /\ nd.created.status = "ok"
    /\ nd.wire = <<>>
    /\ nd' = [nd EXCEPT !.wire = NodeToBytes(nd.created.node)]
    /\ UNCHANGED otherThanNode

\* One byte of the parent field or of the message field of the serialized
\* node is changed.
NodeAlter(i, b) ==
    /\ nd.wire # <<>>
    /\ nd.altered = 0
    /\ nd.decoded.status = "none"
    /\ i \in ParentField(nd.created.node) \cup MessageField(nd.created.node)
    /\ b # nd.wire[i]
    /\ nd' = [nd EXCEPT !.wire[i] = b, !.altered = i]
    /\ UNCHANGED otherThanNode

\* Node.from_bytes(wire)
NodeDecode ==
    /\ nd.wire # <<>>
    /\ nd.decoded.status = "none"
    /\ nd' = [nd EXCEPT !.decoded = NodeFromBytes(nd.wire)]
    /\ UNCHANGED otherThanNode

NextNode ==
    \/ \E msg \in NodeMsgs, parent \in NodeParents : NodeCreate(msg, parent)
    \/ NodeSerialize
    \/ \E i \in 1..(2 * DigestLen + 8), b \in AlteredBytes : NodeAlter(i, b)
    \/ NodeDecode

SpecNode == Init /\ [][NextNode]_vars

\* C1: from_bytes of the serialized form of a node succeeds and gives a node
\* with the digest, the message and the parent of the original.
C1_RoundTrip ==
    (nd.decoded.status # "none" /\ nd.altered = 0) =>
        /\ nd.decoded.status = "ok"
        /\ nd.decoded.node.sha = nd.created.node.sha
        /\ nd.decoded.node.msg = nd.created.node.msg
        /\ NodeParent(nd.decoded.node) = NodeParent(nd.created.node)

\* C2: from_bytes of a serialized node in which one byte of the parent or of
\* the message was changed fails with DecodeError.
C2_AlteredByteIsDecodeError ==
    (nd.decoded.status # "none" /\ nd.altered # 0) =>
        nd.decoded.status = "DecodeError"

\* C14: Node(msg) without a parent succeeds with flag BASE and an all-zero
\* parent of 32 bytes, Node(msg, parent) with 32 bytes of parent gives flag
\* CHILD, and with bytes of any other length it fails with ValueError.
C14_FlagByParent ==
    nd.created.status # "none" =>
        /\ nd.arg = PyNone =>
              /\ nd.created.status = "ok"
              /\ nd.created.node.flag = BASE
              /\ nd.created.node.parent = [i \in 1..DigestLen |-> 0]
        /\ (nd.arg.t = "bytes" /\ Len(nd.arg.v) = DigestLen) =>
              /\ nd.created.status = "ok"
              /\ nd.created.node.flag = CHILD
        /\ (nd.arg.t = "bytes" /\ Len(nd.arg.v) # DigestLen) =>
              nd.created.status = "ValueError"

\* ----------------------------------------------------------- Tree (steps)

\* Tree(node)
TreeNew(n) ==
    /\ ~made
    /\ made' = (TreeInit(n).status = "ok")
    /\ nodes' = TreeInit(n).nodes
    /\ tres' = [op |-> "new", arg |-> n, status |-> TreeInit(n).status]
    /\ UNCHANGED rt
    /\ UNCHANGED otherThanTree

\* tree.link(node)
Link(n) ==
    /\ made
    /\ nodes' = TreeLink(nodes, n).nodes
    /\ tres' = [op |-> "link", arg |-> n, status |-> TreeLink(nodes, n).status]
    /\ UNCHANGED <<made, rt>>
    /\ UNCHANGED otherThanTree

\* tree.unlink(node)
Unlink(n) ==
    /\ made
    /\ nodes' = TreeUnlink(nodes, n).nodes
    /\ tres' = [op |-> "unlink", arg |-> n, status |-> TreeUnlink(nodes, n).status]
    /\ UNCHANGED <<made, rt>>
    /\ UNCHANGED otherThanTree

\* tree.retrace(node): creates the generator; nothing of its body runs yet.
RetraceCall(n) ==
    /\ made
    /\ rt' = [status |-> "yield", start |-> n, node |-> n, out |-> <<>>]
    /\ tres' = [op |-> "retrace", arg |-> n, status |-> "ok"]
    /\ UNCHANGED <<made, nodes>>
    /\ UNCHANGED otherThanTree

\* next(generator): one pass of the loop, up to the next yield, the break or
\* the exception.
RetraceNext ==
    /\ rt.status = "yield"
    /\ LET r == RetraceStep(nodes, rt.node) IN
        /\ rt' = [rt EXCEPT !.status = r.status, !.node = r.node,
                            !.out = IF r.status = "yield"
                                    THEN Append(rt.out, r.node.sha) ELSE rt.out]
        /\ tres' = [op |-> "next", arg |-> rt.start, status |-> r.status]
    /\ UNCHANGED <<made, nodes>>
    /\ UNCHANGED otherThanTree

NextTree ==
    \/ \E n \in NodePool : TreeNew(n)
    \/ \E n \in NodePool : Link(n)
    \/ \E n \in NodePool : Unlink(n)
    \/ \E n \in NodePool : RetraceCall(n)
    \/ RetraceNext

SpecTree == Init /\ [][NextTree]_vars

\* ----------------------------------------------------------- Tree: claims

\* No node of the map has a parent digest that is not a key of the map.
NoDangling ==
    \A k \in DOMAIN nodes :
        nodes[k].flag # BASE => nodes[k].parent \in DOMAIN nodes

\* The step removes a node that another node of the map names as its parent.
UnlinksAParent ==
    /\ tres'.op = "unlink"
    /\ tres'.status = "ok"
    /\ \E k \in DOMAIN nodes' :
          nodes'[k].flag # BASE /\ nodes'[k].parent = tres'.arg.sha

\* C3 as stated: after any sequence of link and unlink calls every non-base
\* node of the map has its parent digest as a key of the map.
C3_NoDanglingParents == made => NoDangling

\* C3 as amended: link never leaves a node without its parent, and neither
\* does an unlink of a node that no node of the map names as its parent; only
\* the unlink of a node that still has children leaves them dangling.
C3_DanglingOnlyByUnlinkOfParent ==
    [][(NoDangling /\ ~UnlinksAParent) => NoDangling']_vars

\* C3: an unlink of a childless node has acted on a tree that holds a chain.
C3_Witness ==
    /\ tres.op = "unlink"
    /\ tres.status = "ok"
    /\ NoDangling
    /\ \E k \in DOMAIN nodes : nodes[k].flag = CHILD

\* C4: link(node) raises LinkageError and leaves the map as it was when
\* node.parent is not a key of it, and otherwise succeeds, stores the node
\* under its own digest and leaves every other entry as it was.
C4_LinkContract ==
    [][tres'.op = "link" =>
        IF NodeParent(tres'.arg).t = "bytes"
           /\ NodeParent(tres'.arg).v \in DOMAIN nodes
        THEN /\ tres'.status = "ok"
             /\ DOMAIN nodes' = (DOMAIN nodes) \cup {tres'.arg.sha}
             /\ nodes'[tres'.arg.sha] = tres'.arg
             /\ \A k \in (DOMAIN nodes) \ {tres'.arg.sha} : nodes'[k] = nodes[k]
        ELSE /\ tres'.status = "LinkageError"
             /\ nodes' = nodes]_vars

\* C4: a link has succeeded in a tree that holds other entries.
C4_Witness ==
    /\ tres.op = "link"
    /\ tres.status = "ok"
    /\ tres.arg.sha \in DOMAIN nodes
    /\ Cardinality(DOMAIN nodes) >= 3

\* The node of the pool with digest h, and the digests of the ancestors of
\* node n, nearest first, the base node's digest last.
PoolNode(h) == CHOOSE p \in NodePool : p.sha = h
RECURSIVE Ancestors(_)
Ancestors(n) ==
    IF n.flag = BASE THEN <<>>
    ELSE <<n.parent>> \o Ancestors(PoolNode(n.parent))

\* C5 as stated: a retrace that ends normally has yielded the ancestors of
\* its node, nearest first, without the base node.
C5_RetraceStopsBelowBase ==
    rt.status = "stop" =>
        rt.out = SubSeq(Ancestors(rt.start), 1, Len(Ancestors(rt.start)) - 1)

\* C5 as amended: a retrace that ends normally has yielded every ancestor of
\* its node, nearest first, and the base node last (for base -> n1 -> n2 ->
\* n3, retrace(n3) yields [n2, n1, base]).
C5_RetraceYieldsUpToBase ==
    rt.status = "stop" => rt.out = Ancestors(rt.start)

\* C5: retrace has run to its end from a node three levels below the base.
C5_Witness ==
    /\ rt.status = "stop"
    /\ Len(rt.out) = 3
    /\ Len(Ancestors(rt.start)) = 3

BaseCount(d) == Cardinality({k \in DOMAIN d : d[k].flag = BASE})

\* C6 as stated: a tree that was created holds exactly one base node.
C6_ExactlyOneBase == made => BaseCount(nodes) = 1

\* C6 as amended: a tree never holds more than one base node, and it holds
\* exactly one from its creation until the base node itself is unlinked.
C6_OneBaseUntilUnlinked ==
    [][made' =>
        /\ BaseCount(nodes') <= 1
        /\ ( ( (made => BaseCount(nodes) = 1)
               /\ ~(tres'.op = "unlink" /\ tres'.status = "ok"
                    /\ tres'.arg.flag = BASE) )
             => BaseCount(nodes') = 1 )]_vars

\* C6: the link of a second base node has been refused.
C6_Witness ==
    /\ made
    /\ tres.op = "link"
    /\ tres.arg.flag = BASE
    /\ tres.status = "LinkageError"
    /\ BaseCount(nodes) = 1

LdKeys == {<<>>, <<1>>, <<2, 3>>}
LdValues == {<<>>, <<7, 8>>}

\* LinearDict(file, d) on the same file, with d None ("None"), a dict of the
\* caller that is empty ("empty") or the mapping at hand, not empty ("keep"):
\* self._d = d or {} is a new dict unless d is truthy.
LdNew(arg) ==
    /\ arg = "keep" => ldd # <<>>
    /\ ldd' = IF arg = "keep" THEN ldd ELSE <<>>
    /\ own' = IF arg = "keep" THEN "caller" ELSE "new"
    /\ lres' = [op |-> "new", status |-> "ok", empty |-> TRUE]
    /\ UNCHANGED <<pep479, file, fpos, dumped>>
    /\ UNCHANGED otherThanLd

\* ld[key] = value
LdSetItem(k, v) ==
    /\ k \in MapKeys(ldd) \/ Len(ldd) < MaxEntries
    /\ dumped.cut = -1
    /\ ldd' = MapSet(ldd, k, v)
    /\ lres' = [op |-> "setitem", status |-> "ok", empty |-> TRUE]
    /\ UNCHANGED <<pep479, file, fpos, own, dumped>>
    /\ UNCHANGED otherThanLd

\* ld.dump()
LdDump ==
    /\ file' = IterDumpAll(ldd)
    /\ fpos' = Len(file')
    /\ dumped' = [valid |-> TRUE, d |-> ldd, cut |-> -1]
    /\ lres' = [op |-> "dump", status |-> "ok", empty |-> TRUE]
    /\ UNCHANGED <<pep479, ldd, own>>
    /\ UNCHANGED otherThanLd

\* The file loses its end after a dump, only its first n bytes are left, and
\* a new LinearDict is made on it.
FileCut(n) ==
    /\ lres.op = "dump"
    /\ n < Len(file)
    /\ file' = SubSeq(file, 1, n)
    /\ fpos' = 0
    /\ dumped' = [dumped EXCEPT !.cut = n]
    /\ ldd' = <<>>
    /\ own' = "new"
    /\ lres' = [op |-> "cut", status |-> "ok", empty |-> TRUE]
    /\ UNCHANGED pep479
    /\ UNCHANGED otherThanLd

\* ld.load()
LdLoad ==
    /\ ldd' = IterLoadAll(file, pep479).d
    /\ fpos' = IterLoadAll(file, pep479).pos
    /\ lres' = [op |-> "load", status |-> IterLoadAll(file, pep479).status,
                empty |-> (ldd = <<>>)]
    /\ UNCHANGED <<pep479, file, own, dumped>>
    /\ UNCHANGED otherThanLd

NextLd ==
    \/ \E arg \in {"None", "empty", "keep"} : LdNew(arg)
    \/ \E k \in LdKeys, v \in LdValues : LdSetItem(k, v)
    \/ LdDump
    \/ \E n \in 0..(8 + MaxEntries * 10) : FileCut(n)
    \/ LdLoad

SpecLd == Init /\ [][NextLd]_vars

\* ----------------------------------------------------- LinearDict: claims

\* C7: dump() and then load() by a new LinearDict with an empty mapping on
\* the same file ends without error and leaves that mapping with the pairs of
\* the dumped mapping.
C7_DumpLoadRoundTrip ==
    (lres.op = "load" /\ lres.empty /\ dumped.valid /\ dumped.cut = -1) =>
        /\ lres.status = "ok"
        /\ MapPairs(ldd) = MapPairs(dumped.d)

\* Where record j of the dump of m starts in the file, and where its key and
\* its value start.
RECURSIVE RecordStart(_, _)
RecordStart(m, j) ==
    IF j = 1 THEN 8 ELSE RecordStart(m, j - 1) + Len(DumpRecord(m[j - 1]))
KeyStart(m, j) == RecordStart(m, j) + 2
ValueStart(m, j) == KeyStart(m, j) + Len(m[j].k) + 4

\* A file of n bytes ends inside the key or inside the value of record j of
\* the dump of m: the length was read and fewer bytes than it says are left.
EndsInKey(m, j, n) == KeyStart(m, j) <= n /\ n < KeyStart(m, j) + Len(m[j].k)
EndsInValue(m, j, n) ==
    ValueStart(m, j) <= n /\ n < ValueStart(m, j) + Len(m[j].v)

ThKeys == {<<1>>, <<2, 3>>}
ThValues == {<<7>>}

\* file.write(b) with the cursor at pos: the bytes from pos on are
\* overwritten and the file grows as needed.
WriteAt(f, pos, b) ==
    [j \in 1..(IF Len(f) > pos + Len(b) THEN Len(f) ELSE pos + Len(b)) |->
        IF j > pos /\ j <= pos + Len(b) THEN b[j - pos]
        ELSE IF j <= Len(f) THEN f[j] ELSE 0]

\* An access of thread t to the wrapped mapping in operation op.
Access(t, op) == [t |-> t, op |-> op, locked |-> (lock = t)]

\* ld[k]: the thread reaches `with self._lock`.
GetCall(t, k) ==
    /\ th[t].pc = "idle"
    /\ th' = [th EXCEPT ![t] = [Idle EXCEPT !.pc = "get_wait", !.k = k]]
    /\ UNCHANGED <<lock, acc, ldVars>>
    /\ UNCHANGED otherThanThreads

\* __getitem__: the lock is acquired.
GetAcquire(t) ==
    /\ th[t].pc = "get_wait"
    /\ lock = 0
    /\ lock' = t
    /\ th' = [th EXCEPT ![t].pc = "get_in"]
    /\ UNCHANGED <<acc, ldVars>>
    /\ UNCHANGED otherThanThreads

\* __getitem__: return self._d[key], or KeyError; the lock is released.
GetRead(t) ==
    /\ th[t].pc = "get_in"
    /\ acc' = Access(t, "getitem")
    /\ th' = [th EXCEPT ![t] = Idle]
    /\ lock' = 0
    /\ UNCHANGED ldVars
    /\ UNCHANGED otherThanThreads

\* ld[k] = v: the thread reaches `with self._lock`.
SetCall(t, k, v) ==
    /\ th[t].pc = "idle"
    /\ th' = [th EXCEPT ![t] = [Idle EXCEPT !.pc = "set_wait", !.k = k, !.v = v]]
    /\ UNCHANGED <<lock, acc, ldVars>>
    /\ UNCHANGED otherThanThreads

\* __setitem__: the lock is acquired.
SetAcquire(t) ==
    /\ th[t].pc = "set_wait"
    /\ lock = 0
    /\ lock' = t
    /\ th' = [th EXCEPT ![t].pc = "set_in"]
    /\ UNCHANGED <<acc, ldVars>>
    /\ UNCHANGED otherThanThreads

\* __setitem__: the checks pass for bytes of these sizes, self._d[key] =
\* value; the lock is released.
SetWrite(t) ==
    /\ th[t].pc = "set_in"
    /\ acc' = Access(t, "setitem")
    /\ ldd' = MapSet(ldd, th[t].k, th[t].v)
    /\ th' = [th EXCEPT ![t] = Idle]
    /\ lock' = 0
    /\ UNCHANGED <<pep479, file, fpos, own, lres, dumped>>
    /\ UNCHANGED otherThanThreads

\* ld.dump(): iter_dump starts with seek(0) and truncate(), then reaches
\* `with self._lock`.
DumpCall(t) ==
    /\ t \in Dumpers
    /\ th[t].pc = "idle"
    /\ file' = <<>>
    /\ fpos' = 0
    /\ th' = [th EXCEPT ![t] = [Idle EXCEPT !.pc = "dump_wait"]]
    /\ UNCHANGED <<pep479, ldd, own, lres, dumped>>
    /\ UNCHANGED <<lock, acc>>
    /\ UNCHANGED otherThanThreads

\* iter_dump: the lock is acquired, the header is written and the iteration
\* over self._d.items() begins.
DumpAcquire(t) ==
    /\ th[t].pc = "dump_wait"
    /\ lock = 0
    /\ lock' = t
    /\ acc' = [t |-> t, op |-> "dump", locked |-> TRUE]
    /\ file' = WriteAt(file, fpos, DumpHeader(ldd))
    /\ fpos' = fpos + 8
    /\ th' = [th EXCEPT ![t].pc = "dump_in", ![t].i = 0, ![t].n = Len(ldd)]
    /\ UNCHANGED <<pep479, ldd, own, lres, dumped>>
    /\ UNCHANGED otherThanThreads

\* iter_dump: the next entry is written and its number yielded to dump(),
\* which resumes the generator.
DumpEntry(t) ==
    /\ th[t].pc = "dump_in"
    /\ Len(ldd) = th[t].n
    /\ th[t].i < th[t].n
    /\ acc' = Access(t, "dump")
    /\ file' = WriteAt(file, fpos, DumpRecord(ldd[th[t].i + 1]))
    /\ fpos' = fpos + Len(DumpRecord(ldd[th[t].i + 1]))
    /\ th' = [th EXCEPT ![t].i = th[t].i + 1]
    /\ UNCHANGED <<pep479, ldd, own, lres, dumped>>
    /\ UNCHANGED lock
    /\ UNCHANGED otherThanThreads

\* iter_dump: the iteration is over, the with block is left and the lock
\* released.
DumpEnd(t) ==
    /\ th[t].pc = "dump_in"
    /\ Len(ldd) = th[t].n
    /\ th[t].i = th[t].n
    /\ acc' = Access(t, "dump")
    /\ lock' = 0
    /\ th' = [th EXCEPT ![t] = Idle]
    /\ UNCHANGED ldVars
    /\ UNCHANGED otherThanThreads

\* iter_dump: the dict changed size during the iteration; the RuntimeError
\* leaves the with block and the lock is released.
DumpFail(t) ==
    /\ th[t].pc = "dump_in"
    /\ Len(ldd) # th[t].n
    /\ acc' = Access(t, "dump")
    /\ lock' = 0
    /\ th' = [th EXCEPT ![t] = Idle]
    /\ UNCHANGED ldVars
    /\ UNCHANGED otherThanThreads

\* ld.load(): iter_load starts with get_length(): seek(0), read(8) and
\* len(self._d).
LoadCall(t) ==
    /\ t \in Loaders
    /\ th[t].pc = "idle"
    /\ fpos' = GetLengthPos(file)
    /\ acc' = Access(t, "load")
    /\ th' = [th EXCEPT ![t] = [Idle EXCEPT !.pc = "load_clear"]]
    /\ UNCHANGED <<pep479, file, ldd, own, lres, dumped>>
    /\ UNCHANGED lock
    /\ UNCHANGED otherThanThreads

\* iter_load: self._d.clear()
LoadClear(t) ==
    /\ th[t].pc = "load_clear"
    /\ ldd' = <<>>
    /\ acc' = Access(t, "load")
    /\ th' = [th EXCEPT ![t].pc = "load_loop"]
    /\ UNCHANGED <<pep479, file, fpos, own, lres, dumped>>
    /\ UNCHANGED lock
    /\ UNCHANGED otherThanThreads

\* iter_load: one record is read, self._d[k] = v, and its number yielded to
\* load(), which resumes the generator.
LoadEntry(t) ==
    /\ th[t].pc = "load_loop"
    /\ LoadRecord(file, fpos).status = "entry"
    /\ ldd' = MapSet(ldd, LoadRecord(file, fpos).k, LoadRecord(file, fpos).v)
    /\ fpos' = LoadRecord(file, fpos).pos
    /\ acc' = Access(t, "load")
    /\ UNCHANGED <<pep479, file, own, lres, dumped>>
    /\ UNCHANGED <<lock, th>>
    /\ UNCHANGED otherThanThreads

\* iter_load: the file is at its end (StopIteration) or a record is cut
\* (LoaderError).
LoadEnd(t) ==
    /\ th[t].pc = "load_loop"
    /\ LoadRecord(file, fpos).status # "entry"
    /\ fpos' = LoadRecord(file, fpos).pos
    /\ th' = [th EXCEPT ![t] = Idle]
    /\ UNCHANGED <<pep479, file, ldd, own, lres, dumped>>
    /\ UNCHANGED <<lock, acc>>
    /\ UNCHANGED otherThanThreads

NextThreads ==
    \E t \in Threads :
        \/ \E k \in ThKeys : GetCall(t, k)
        \/ GetAcquire(t)
        \/ GetRead(t)
        \/ \E k \in ThKeys, v \in ThValues : SetCall(t, k, v)
        \/ SetAcquire(t)
        \/ SetWrite(t)
        \/ DumpCall(t)
        \/ DumpAcquire(t)
        \/ DumpEntry(t)
        \/ DumpEnd(t)
        \/ DumpFail(t)
        \/ LoadCall(t)
        \/ LoadClear(t)
        \/ LoadEntry(t)
        \/ LoadEnd(t)

SpecThreads == Init /\ [][NextThreads]_vars

\* C9: every access to the wrapped mapping, by __getitem__, __setitem__,
\* dump and load, is made by a thread that holds the lock of the LinearDict.
C9_AccessUnderLock == acc.t # 0 => acc.locked

\* ---------------------------------------------------- HighDensityDB (data)

\* HighDensityDB.__init__(file_obj, step, key_size): the second assertion.
DbInit(step, key_size) ==
    IF (key_size * 256) % step # 0 THEN "ok" ELSE "AssertionError"

\* _Data.__init__(db, pos, limit) with limit None or an int: how it ends.
\* _find_next() calls self.seek(self.limit); there offset < self.limit is
\* false, so self.next is read, whose getter reads self._next before
\* __init__ has assigned it.
DataInit(key_size, pos, limit) ==
    IF limit.t = "int" /\ limit.v[1] <= key_size * 2 THEN "ValueError"
    ELSE LET unbounded == ~PyTruth(limit)            \* limit or float('inf')
             seekTo == IF unbounded THEN 0 ELSE limit.v[1] - 2 * key_size
             selfLimit == seekTo                      \* the property, read again
         IN IF ~unbounded /\ seekTo < selfLimit
            THEN "ok"
            ELSE "AttributeError"                     \* self._next is not set

\* HighDensityDB.mark(): the name of the section whose tag is read at pos.
MarkRead(f, pos) ==
    LET b == ReadAt(f, pos, 1)
        code == FromBytesLE(b)
    IN  [name |-> IF code = 0 THEN "index" ELSE IF code = 1 THEN "data"
                  ELSE "IndexError",
         pos |-> pos + Len(b)]

\* HighDensityDB.load_item() with the file cursor at pos.
LoadItem(cfg, f, pos) ==
    LET m == MarkRead(f, pos)
        raw == ReadAt(f, m.pos, cfg.key_size)
        size == FromBytesLE(raw)
    IN  IF m.name = "IndexError"
        THEN [status |-> "IndexError", item |-> NoItem, pos |-> m.pos]
        ELSE IF m.name = "index"
        THEN [status |-> "ok", item |-> [kind |-> "index", pos |-> m.pos],
              pos |-> m.pos]
        ELSE IF DataInit(cfg.key_size, m.pos + Len(raw), PyInt(size)) = "ok"
        THEN [status |-> "ok",
              item |-> [kind |-> "data", pos |-> m.pos + Len(raw)],
              pos |-> m.pos + Len(raw)]
        ELSE [status |-> DataInit(cfg.key_size, m.pos + Len(raw), PyInt(size)),
              item |-> NoItem, pos |-> m.pos + Len(raw)]

\* _Index.__getitem__(key) of the index section at ipos.
IndexGet(cfg, f, pos, ipos, key) ==
    LET raw == ReadAt(f, ipos + cfg.key_size * key, cfg.key_size)
        next_pos == FromBytesLE(raw)
        at == IF ipos + cfg.key_size * key < Len(f)
              THEN ipos + cfg.key_size * key + Len(raw)
              ELSE ipos + cfg.key_size * key
    IN  IF key > cfg.step THEN [status |-> "ValueError", value |-> 0, pos |-> pos]
        ELSE IF next_pos = 0 THEN [status |-> "KeyError", value |-> 0, pos |-> at]
        ELSE [status |-> "ok", value |-> next_pos, pos |-> at]

\* The loop of HighDensityDB.__getitem__ over the bytes of key that are left.
RECURSIVE DbWalk(_, _, _, _, _)
DbWalk(cfg, f, pos, item, key) ==
    IF key = <<>> THEN [status |-> "ok", item |-> item, pos |-> pos]
    ELSE IF item.kind # "index"                       \* a _Data has no item[i]
    THEN [status |-> "TypeError", item |-> NoItem, pos |-> pos]
    ELSE LET g == IndexGet(cfg, f, pos, item.pos, Head(key)) IN
         IF g.status # "ok" THEN [status |-> g.status, item |-> NoItem, pos |-> g.pos]
         ELSE LET li == LoadItem(cfg, f, g.value) IN
              IF li.status # "ok" THEN li
              ELSE DbWalk(cfg, f, li.pos, li.item, Tail(key))

\* HighDensityDB.__getitem__(key)
DbGetItem(cfg, f, pos, key) ==
    IF Len(key) # cfg.key_size
    THEN [status |-> "ValueError", item |-> NoItem, pos |-> pos]
    ELSE DbWalk(cfg, f, pos, [kind |-> "index", pos |-> 0],
                SubSeq(key, 1, Len(key) - 1))

\* ---------------------------------------------------- HighDensityDB (steps)

\* The configurations a store is opened with (step, key_size): the defaults
\* and small ones.
DbConfigs == {<<256, 5>>, <<2, 2>>, <<3, 2>>}

\* The keys looked up and the values written.
DbKeys == {<<0, 0>>, <<1, 0>>, <<3, 1>>, <<4, 0>>, <<1>>}
DbValues == {<<1, 2, 3, 4, 5, 6, 7>>}

\* The keys values are written and read under.
DbDataKeys == {<<0, 0>>, <<1, 0>>}

\* HighDensityDB(file, step, key_size) on the file at hand.
DbOpen(step, key_size) ==
    /\ ~db.open
    /\ db' = [open |-> DbInit(step, key_size) = "ok", step |-> step,
              key_size |-> key_size]
    /\ dbpos' = 0
    /\ dbitem' = NoItem
    /\ dbres' = [NoDbCall EXCEPT !.op = "open", !.status = DbInit(step, key_size)]
    /\ want' = IF want.phase = "closed" /\ DbInit(step, key_size) = "ok"
                  /\ Len(want.key) = key_size
               THEN [want EXCEPT !.phase = "reopened"] ELSE want
    /\ UNCHANGED dbfile
    /\ UNCHANGED otherThanDb

\* db.close()
DbClose ==
    /\ db.open
    /\ db' = [db EXCEPT !.open = FALSE]
    /\ dbitem' = NoItem
    /\ dbres' = [NoDbCall EXCEPT !.op = "close", !.status = "ok"]
    /\ want' = IF want.phase = "written"
               THEN [want EXCEPT !.phase = "closed"] ELSE want
    /\ UNCHANGED <<dbfile, dbpos>>
    /\ UNCHANGED otherThanDb

\* item = db[key]
DbLookup(key) ==
    /\ db.open
    /\ LET r == DbGetItem(db, dbfile, dbpos, key) IN
        /\ dbitem' = r.item
        /\ dbpos' = r.pos
        /\ dbres' = [NoDbCall EXCEPT !.op = "lookup", !.status = r.status,
                                     !.key = key]
    /\ UNCHANGED <<db, dbfile, want>>
    /\ UNCHANGED otherThanDb

\* The index section a slot is written in: the root or the one looked up.
IndexAt(which) == IF which = "root" THEN 0 ELSE dbitem.pos

\* index[slot] = value, _Index.__setitem__, with value the size of the
\* file as key_size bytes (what the lookup would store), zero, or one
\* byte too long.
IndexSetItem(which, slot, value) ==
    /\ db.open
    /\ which = "item" => dbitem.kind = "index"
    /\ Len(dbfile) <= MaxFile
    /\ IF Len(value) # db.key_size
       THEN /\ dbres' = [NoDbCall EXCEPT !.op = "setslot", !.status = "ValueError"]
            /\ UNCHANGED <<dbfile, dbpos>>
       ELSE IF slot > db.step
       THEN /\ dbres' = [NoDbCall EXCEPT !.op = "setslot", !.status = "ValueError"]
            /\ UNCHANGED <<dbfile, dbpos>>
       ELSE /\ dbfile' = WriteAt(dbfile, IndexAt(which) + db.key_size * slot, value)
            /\ dbpos' = IndexAt(which) + db.key_size * slot + Len(value)
            /\ dbres' = [NoDbCall EXCEPT !.op = "setslot", !.status = "ok"]
    /\ UNCHANGED <<db, dbitem, want>>
    /\ UNCHANGED otherThanDb

\* _Data(db, pos, limit)
DataNew(pos, limit) ==
    /\ db.open
    /\ dbres' = [NoDbCall EXCEPT !.op = "data",
                                 !.status = DataInit(db.key_size, pos, limit)]
    /\ UNCHANGED <<db, dbfile, dbpos, dbitem, want>>
    /\ UNCHANGED otherThanDb

\* db[key].write(data): the lookup, then write of the section it returns;
\* an _Index has no write.
DbWrite(key, data) ==
    /\ db.open
    /\ LET r == DbGetItem(db, dbfile, dbpos, key) IN
        /\ dbitem' = r.item
        /\ dbpos' = r.pos
        /\ dbres' = [op |-> "write", key |-> key, data |-> data, arg |-> 0,
                     status |-> IF r.status # "ok" THEN r.status
                                ELSE "AttributeError"]
    /\ want' = [phase |-> "written", key |-> key, data |-> data]
    /\ UNCHANGED <<db, dbfile>>
    /\ UNCHANGED otherThanDb

\* db[key].read(0): the lookup, then read of the section it returns; an
\* _Index has no read.
DbRead(key) ==
    /\ db.open
    /\ LET r == DbGetItem(db, dbfile, dbpos, key) IN
        /\ dbitem' = r.item
        /\ dbpos' = r.pos
        /\ dbres' = [op |-> "read", key |-> key, data |-> <<>>, arg |-> 0,
                     status |-> IF r.status # "ok" THEN r.status
                                ELSE "AttributeError"]
    /\ UNCHANGED <<db, dbfile, want>>
    /\ UNCHANGED otherThanDb

NextDb ==
    \/ \E c \in DbConfigs : DbOpen(c[1], c[2])
    \/ DbClose
    \/ \E key \in DbKeys : DbLookup(key)
    \/ \E which \in {"root", "item"}, slot \in 0..4 :
       \E value \in {ToBytesLE(Len(dbfile), db.key_size),
                     ToBytesLE(0, db.key_size),
                     ToBytesLE(Len(dbfile), db.key_size + 1)} :
            IndexSetItem(which, slot, value)
    \/ \E pos \in {0, 1}, limit \in {PyNone, PyInt(0), PyInt(4), PyInt(7), PyInt(16)} :
            DataNew(pos, limit)
    \/ \E key \in DbDataKeys, data \in DbValues : DbWrite(key, data)
    \/ \E key \in DbDataKeys : DbRead(key)

SpecDb == Init /\ [][NextDb]_vars

\* C10: a value longer than one section's limit that was written under a
\* key is returned by read(0) under the same key after the store was
\* closed and reopened.
C10_LongValueRoundTrip ==
    (dbres.op = "read" /\ want.phase = "reopened" /\ dbres.key = want.key) =>
        /\ dbres.status = "ok"
        /\ dbres.data = want.data

\* A key of the right size whose bytes are slots of an index section.
ValidKey(key) ==
    /\ Len(key) = db.key_size
    /\ \A i \in DOMAIN key : key[i] < db.step

\* C11: a store with step 256 and key_size 5 can be constructed; the first
\* lookup of a key in a store without any branch returns an index section
\* after allocating sections at the end of the file, and a lookup of the
\* same key that follows it at once allocates nothing: it succeeds and
\* leaves the size of the file as it was.
C11_FirstLookupAllocates ==
    [][/\ (dbres'.op = "open" /\ db'.step = 256 /\ db'.key_size = 5)
            => dbres'.status = "ok"
       /\ (dbres'.op = "lookup" /\ ValidKey(dbres'.key) /\ dbfile = <<>>)
            => /\ dbres'.status = "ok"
               /\ dbitem'.kind = "index"
               /\ Len(dbfile') > Len(dbfile)
       /\ (dbres'.op = "lookup" /\ dbres.op = "lookup" /\ ValidKey(dbres'.key)
              /\ dbres'.key = dbres.key)
            => /\ dbres'.status = "ok"
               /\ Len(dbfile') = Len(dbfile)]_vars

\* The offset stored in slot i of the index section at ipos of the file f.
SlotValue(f, ipos, i) ==
    FromBytesLE(ReadAt(f, ipos + db.key_size * i, db.key_size))

\* C19: a lookup that finds the root slot of its first key byte unset ends
\* well, with the offset of a new index section recorded in that slot, the
\* section at the former end of the file and all of its slots zero; a lookup
\* that finds the slot set changes nothing in the file.
C19_UnsetSlotAllocates ==
    [][(dbres'.op = "lookup" /\ ValidKey(dbres'.key)) =>
        IF SlotValue(dbfile, 0, dbres'.key[1]) = 0
        THEN /\ dbres'.status = "ok"
             /\ SlotValue(dbfile', 0, dbres'.key[1]) # 0
             /\ SlotValue(dbfile', 0, dbres'.key[1]) >= Len(dbfile)
             /\ Len(dbfile') >= SlotValue(dbfile', 0, dbres'.key[1])
                                    + db.key_size * db.step
             /\ \A j \in 0..(db.step - 1) :
                   SlotValue(dbfile', dbitem'.pos, j) = 0
        ELSE dbfile' = dbfile]_vars

\* The key with the last byte of key replaced by b.
WithLastByte(key, b) == [key EXCEPT ![Len(key)] = b]

\* C26: a lookup that succeeds returns a data section, and the lookup of a
\* key that differs from it in the last byte only returns another section.
C26_KeysIndependent ==
    (dbres.op = "lookup" /\ dbres.status = "ok") =>
        /\ dbitem.kind = "data"
        /\ \A b \in {0, 1, 255} :
              b # dbres.key[Len(dbres.key)] =>
                 DbGetItem(db, dbfile, dbpos, WithLastByte(dbres.key, b)).item
                    # dbitem

\* Byte.__getitem__(item): pos = 7 - item, (self // 2**pos) % 2.  For a
\* negative pos 2**pos is the float 1 / 2**-pos and the floor division
\* gives self * 2**-pos.
ByteGetItem(byte, item) ==
    IF 7 - item >= 0 THEN (byte \div 2 ^ (7 - item)) % 2
    ELSE (byte * 2 ^ (item - 7)) % 2

\* ByteArray.__getitem__((k, item)) on the buffer b.
ByteArrayGetBit(b, k, item) ==
    IF k >= Len(b) THEN [status |-> "IndexError", ret |-> PyNone]
    ELSE [status |-> "ok", ret |-> PyInt(ByteGetItem(b[k + 1], item))]

\* ByteArray.__setitem__((k, item), value) on the buffer b: how it ends and
\* the buffer afterwards.  With a negative pos, place is a fraction and
\* byte + place a float, which bytearray.__setitem__ refuses.
ByteArraySetBit(b, k, item, value) ==
    IF k >= Len(b) THEN [status |-> "IndexError", b |-> b]
    ELSE LET byte == b[k + 1]
             pos == 7 - item
             bit == ByteGetItem(byte, item)
         IN  IF value = 1
             THEN IF bit # 0 THEN [status |-> "ok", b |-> b]
                  ELSE IF pos >= 0
                  THEN [status |-> "ok", b |-> [b EXCEPT ![k + 1] = byte + 2 ^ pos]]
                  ELSE [status |-> "TypeError", b |-> b]
             ELSE IF value = 0
             THEN IF bit # 0
                  THEN [status |-> "ok", b |-> [b EXCEPT ![k + 1] = byte - 2 ^ pos]]
                  ELSE [status |-> "ok", b |-> b]
             ELSE [status |-> "ValueError", b |-> b]

\* ByteArray.bit(n, v): byte = n // 8, carry = n - byte; a truthy v is
\* stored, otherwise the bit is returned.
ByteArrayBit(b, n, v) ==
    LET byte == n \div 8
        carry == n - byte
    IN  IF PyTruth(v)
        THEN [status |-> ByteArraySetBit(b, byte, carry, v.v[1]).status,
              b |-> ByteArraySetBit(b, byte, carry, v.v[1]).b,
              ret |-> PyNone]
        ELSE [status |-> ByteArrayGetBit(b, byte, carry).status,
              b |-> b,
              ret |-> ByteArrayGetBit(b, byte, carry).ret]

\* The buffers a ByteArray is made of and the values given to bit().
BitBuffers ==
    UNION {{[i \in 1..k |-> 0], [i \in 1..k |-> 255]} : k \in 1..MaxBytes}
BitValues == {PyNone, PyInt(0), PyInt(1), PyInt(2)}

\* The bit indices bit() is called with: three of the first byte, every one
\* of the later bytes, and the first one past the end.
BitArgs == {0, 1, 7} \cup 8..(8 * MaxBytes)

\* ByteArray(b)
ByteArrayNew(b) ==
    /\ ba' = b
    /\ bres' = [NoBitCall EXCEPT !.op = "new", !.status = "ok"]
    /\ UNCHANGED otherThanBits

\* buffer.bit(n, v)
Bit(n, v) ==
    /\ ba # <<>>
    /\ n <= 8 * Len(ba)
    /\ ba' = ByteArrayBit(ba, n, v).b
    /\ bres' = [op |-> "bit", n |-> n, v |-> v,
                status |-> ByteArrayBit(ba, n, v).status,
                ret |-> ByteArrayBit(ba, n, v).ret]
    /\ UNCHANGED otherThanBits

NextBits ==
    \/ \E b \in BitBuffers : ByteArrayNew(b)
    \/ \E n \in BitArgs, v \in BitValues : Bit(n, v)

SpecBits == Init /\ [][NextBits]_vars

\* The bit indices of the buffer b.
BitIndices(b) == 0..(8 * Len(b) - 1)

\* C12: for every bit index i of the buffer, bit(i, 1) succeeds, bit(i)
\* then returns 1, and bit(j) returns what it returned before for every
\* other index j.
C12_SetBitFrame ==
    [][(bres'.op = "bit" /\ bres'.v = PyInt(1) /\ bres'.n \in BitIndices(ba)) =>
        /\ bres'.status = "ok"
        /\ ByteArrayBit(ba', bres'.n, PyNone).ret = PyInt(1)
        /\ \A j \in BitIndices(ba) \ {bres'.n} :
              ByteArrayBit(ba', j, PyNone).ret = ByteArrayBit(ba, j, PyNone).ret]_vars

\* ------------------------------------------------- Tree.bind_ld (data)

\* ByteDict(tree): a dict subclass whose own storage (v) stays empty, since
\* super().__init__() gets no items and every write goes to tree.nodes.
ByteDictNew == [t |-> "ByteDict", v |-> <<>>]

\* LinearDict.__init__(file, d): self._d = d or {} is d when d is truthy
\* ("tree" for the ByteDict of a tree) and a new dict otherwise.
LinearDictInit(d) == IF PyTruth(d) THEN "tree" ELSE "new"

\* The elements of a finite set in some fixed order.
RECURSIVE SeqOf(_)
SeqOf(S) ==
    IF S = {} THEN <<>>
    ELSE LET x == CHOOSE y \in S : TRUE IN <<x>> \o SeqOf(S \ {x})

\* ByteDict.items() on the node map d: for key in self: yield key, self[key]
ByteDictItems(d) ==
    [i \in 1..Cardinality(DOMAIN d) |->
        [k |-> SeqOf(DOMAIN d)[i], v |-> NodeToBytes(d[SeqOf(DOMAIN d)[i]])]]

\* ByteDict.__setitem__(key, value) on the node map d:
\* self._nodes[key] = Node.from_bytes(value)
ByteDictSetItemUnverified(d, key, value) ==
    [status |-> "ok",
     nodes |-> DictPut(d, key,
        [flag |-> ReadAt(value, 0, 1),
         parent |-> ReadAt(value, 1, DigestLen),
         len |-> ReadAt(value, 1 + DigestLen, 2),
         msg |-> ReadAt(value, 3 + DigestLen,
                        FromBytesLE(ReadAt(value, 1 + DigestLen, 2))),
         sha |-> ReadAt(value, 3 + DigestLen
                               + FromBytesLE(ReadAt(value, 1 + DigestLen, 2)),
                        DigestLen)])]
ByteDictSetItem(d, key, value) ==
    IF NodeFromBytes(value).status = "ok"
    THEN [status |-> "ok", nodes |-> DictPut(d, key, NodeFromBytes(value).node)]
    ELSE [status |-> NodeFromBytes(value).status, nodes |-> d]

\* The loop of iter_load when the wrapped mapping is the ByteDict of a tree
\* with node map d.
RECURSIVE ByteDictLoadLoop(_, _, _, _)
ByteDictLoadLoop(f, pos, d, stopIsError) ==
    LET r == LoadRecord(f, pos) IN
    IF r.status = "entry"
    THEN IF ByteDictSetItem(d, r.k, r.v).status = "ok"
         THEN ByteDictLoadLoop(f, r.pos, ByteDictSetItem(d, r.k, r.v).nodes,
                               stopIsError)
         ELSE [status |-> ByteDictSetItem(d, r.k, r.v).status, nodes |-> d,
               pos |-> r.pos]
    ELSE IF r.status = "StopIteration"
    THEN [status |-> IF stopIsError THEN "RuntimeError" ELSE "ok",
          nodes |-> d, pos |-> r.pos]
    ELSE [status |-> r.status, nodes |-> d, pos |-> r.pos]

\* The chain of nodes a bound tree is built of: a base node and, below it,
\* one node per level.
RECURSIVE ChainNode(_)
ChainNode(k) ==
    IF k = 0 THEN NodeInit(PyStr(<<97>>), PyFalsySized(DigestLen)).node
    ELSE NodeInit(PyStr(<<97>>), PyBytes(ChainNode(k - 1).sha)).node

BindPool == {ChainNode(k) : k \in 0..MaxBatch}

\* The record of a snapshot file for node n, and a serialized node whose
\* first message byte was changed, so that its digest does not match.
SnapRecord(n) == [k |-> n.sha, v |-> NodeToBytes(n)]
Corrupt(v) == [v EXCEPT ![DigestLen + 4] = 98]

\* A snapshot of the first len nodes of the chain, record bad (if any) with
\* a content that does not match its digest.
SnapBatch(len, bad) ==
    [i \in 1..len |->
        IF i = bad THEN [k |-> ChainNode(i - 1).sha,
                         v |-> Corrupt(NodeToBytes(ChainNode(i - 1)))]
        ELSE SnapRecord(ChainNode(i - 1))]

\* ------------------------------------------------ Tree.bind_ld (steps)

\* ld = tree.bind_ld(file): LinearDict(file, ByteDict(tree))
BindLd ==
    /\ made
    /\ bound' = TRUE
    /\ own' = LinearDictInit(ByteDictNew)
    /\ ldd' = <<>>
    /\ tres' = [op |-> "bind", arg |-> NoNode, status |-> "ok"]
    /\ UNCHANGED <<made, nodes, rt, snap>>
    /\ UNCHANGED <<pep479, file, fpos, lres, dumped>>
    /\ UNCHANGED otherThanBind

\* The file is replaced by a snapshot of serialized nodes.
SnapshotWrite(len, bad) ==
    /\ made
    /\ file' = IterDumpAll(SnapBatch(len, bad))
    /\ fpos' = Len(file')
    /\ snap' = [recs |-> SnapBatch(len, bad), bad |-> bad]
    /\ tres' = [op |-> "snapshot", arg |-> NoNode, status |-> "ok"]
    /\ UNCHANGED <<made, nodes, rt, bound>>
    /\ UNCHANGED <<pep479, ldd, own, lres, dumped>>
    /\ UNCHANGED otherThanBind

\* ld.dump() of the LinearDict bind_ld returned.
BindDump ==
    /\ bound
    /\ file' = IterDumpAll(IF own = "tree" THEN ByteDictItems(nodes) ELSE ldd)
    /\ fpos' = Len(file')
    /\ snap' = NoSnap
    /\ tres' = [op |-> "dump", arg |-> NoNode, status |-> "ok"]
    /\ UNCHANGED <<made, nodes, rt, bound>>
    /\ UNCHANGED <<pep479, ldd, own, lres, dumped>>
    /\ UNCHANGED otherThanBind

\* ld.load() of the LinearDict bind_ld returned: get_length(),
\* self._d.clear() and the loop, on the tree's node map or on the dict the
\* LinearDict made for itself.
BindLoad ==
    /\ bound
    /\ IF own = "tree"
       THEN LET r == ByteDictLoadLoop(file, GetLengthPos(file), EmptyDict, pep479) IN
            /\ nodes' = r.nodes
            /\ fpos' = r.pos
            /\ tres' = [op |-> "load", arg |-> NoNode, status |-> r.status]
            /\ UNCHANGED ldd
       ELSE /\ ldd' = IterLoadAll(file, pep479).d
            /\ fpos' = IterLoadAll(file, pep479).pos
            /\ tres' = [op |-> "load", arg |-> NoNode,
                        status |-> IterLoadAll(file, pep479).status]
            /\ UNCHANGED nodes
    /\ UNCHANGED <<made, rt, bound, snap>>
    /\ UNCHANGED <<pep479, file, own, lres, dumped>>
    /\ UNCHANGED otherThanBind

\* ByteDict(tree)[key] = value
AdapterSet(key, value) ==
    /\ made
    /\ nodes' = ByteDictSetItem(nodes, key, value).nodes
    /\ tres' = [op |-> "setitem", arg |-> NoNode,
                status |-> ByteDictSetItem(nodes, key, value).status]
    /\ UNCHANGED <<made, rt, bound, snap>>
    /\ UNCHANGED ldVars
    /\ UNCHANGED otherThanBind

\* ByteDict(tree).clear()
AdapterClear ==
    /\ made
    /\ nodes' = EmptyDict
    /\ tres' = [op |-> "clear", arg |-> NoNode, status |-> "ok"]
    /\ UNCHANGED <<made, rt, bound, snap>>
    /\ UNCHANGED ldVars
    /\ UNCHANGED otherThanBind

\* The keys and the serialized nodes written through the adapter: the first
\* nodes of the chain, as they are, with a changed message byte or with a
\* flag that is none.
AdapterKeys == {ChainNode(0).sha, ChainNode(1).sha}
AdapterValues ==
    {NodeToBytes(ChainNode(0)), NodeToBytes(ChainNode(1)),
     Corrupt(NodeToBytes(ChainNode(1))),
     [NodeToBytes(ChainNode(0)) EXCEPT ![1] = 0]}

\* A tree, the LinearDict bound to it and the snapshot files it dumps and
\* loads.
NextBind ==
    \/ \E n \in BindPool : TreeNew(n)
    \/ \E n \in BindPool : Link(n)
    \/ \E n \in BindPool : Unlink(n)
    \/ BindLd
    \/ \E len \in 1..MaxBatch, bad \in 0..MaxBatch : bad <= len /\ SnapshotWrite(len, bad)
    \/ BindDump
    \/ BindLoad

SpecBind == Init /\ [][NextBind]_vars

\* A tree that is changed by link, unlink, writes through its adapter and
\* loads of a snapshot, and is retraced.
NextAdapter ==
    \/ \E n \in BindPool : TreeNew(n)
    \/ \E n \in BindPool : Link(n)
    \/ \E n \in BindPool : Unlink(n)
    \/ \E n \in BindPool : RetraceCall(n)
    \/ RetraceNext
    \/ \E key \in AdapterKeys, value \in AdapterValues : AdapterSet(key, value)
    \/ AdapterClear
    \/ BindLd
    \/ SnapshotWrite(MaxBatch, 0)
    \/ BindLoad

SpecAdapter == Init /\ [][NextAdapter]_vars

\* ------------------------------------------------ Tree.bind_ld: claims

\* The records a snapshot file holds, as load reads them.
FileRecords(f) == MapPairs(IterLoadAll(f, FALSE).d)

\* C15: the LinearDict of bind_ld works on the node map of the tree: its
\* dump writes one record (digest, serialized node) per node of the tree,
\* and after its load of a snapshot of sound records the tree holds the
\* nodes of the snapshot.
C15_BoundToTree ==
    /\ (bound /\ tres.op = "dump") =>
          /\ FromBytesLE(ReadAt(file, 0, 8)) = Cardinality(DOMAIN nodes)
          /\ FileRecords(file) = {<<k, NodeToBytes(nodes[k])>> : k \in DOMAIN nodes}
    /\ (bound /\ tres.op = "load" /\ snap.recs # <<>> /\ snap.bad = 0) =>
          /\ DOMAIN nodes = {snap.recs[i].k : i \in DOMAIN snap.recs}
          /\ \A i \in DOMAIN snap.recs :
                NodeToBytes(nodes[snap.recs[i].k]) = snap.recs[i].v

\* C16: when the bound tree loads a snapshot in which the content of one
\* record does not match its digest, the load fails with an error at that
\* record, the record is not inserted in the tree, and the records before it
\* are in the tree.
C16_BadRecordRejected ==
    (bound /\ tres.op = "load" /\ snap.bad # 0) =>
        /\ tres.status \in {"DecodeError", "TypeError"}
        /\ \A i \in 1..(snap.bad - 1) :
              /\ snap.recs[i].k \in DOMAIN nodes
              /\ NodeToBytes(nodes[snap.recs[i].k]) = snap.recs[i].v
        /\ \A k \in DOMAIN nodes : NodeToBytes(nodes[k]) # snap.recs[snap.bad].v

\* ------------------------------------------------------------ _Data (data)

\* offset < self.limit, with self.limit = self._limit - 2 * key_size.
BelowLimit(offset, limit, key_size) ==
    limit.t = "float" \/ offset < limit.v[1] - 2 * key_size

\* The fields _Data.__init__(db, pos, limit) assigns before it looks for a
\* continuation, with _next None as for a file without extension.
DataFields(key_size, pos, limit) ==
    IF limit.t = "int" /\ limit.v[1] <= key_size * 2
    THEN [status |-> "ValueError", sec |-> NoSection]
    ELSE [status |-> "ok",
          sec |-> [made |-> TRUE, pos |-> pos, cursor |-> pos,
                   size |-> IF PyTruth(limit) THEN limit.v[1] ELSE 0,
                   limit |-> IF PyTruth(limit) THEN limit ELSE PyInf,
                   next |-> PyNone]]

\* self.next of a section without continuation: extend(), which asserts
\* that the limit is finite and calls self.seek(self.limit); that seek is
\* not below the limit and reads self.next again, and so on until the
\* interpreter's recursion limit.  The cursor is left at the limit.
DataNext(s, key_size) ==
    IF s.limit.t = "float" THEN [status |-> "AssertionError", sec |-> s]
    ELSE [status |-> "RecursionError",
          sec |-> [s EXCEPT !.cursor = s.limit.v[1] - 2 * key_size]]

\* _Data.seek(offset): how it ends, the section and the file cursor.
DataSeek(s, key_size, at, offset) ==
    IF BelowLimit(offset, s.limit, key_size)
    THEN [status |-> "ok",
          sec |-> [s EXCEPT !.cursor = offset,
                            !.size = IF s.size > offset THEN s.size ELSE offset],
          pos |-> s.pos + key_size + offset]
    ELSE [status |-> DataNext([s EXCEPT !.cursor = offset], key_size).status,
          sec |-> DataNext([s EXCEPT !.cursor = offset], key_size).sec,
          pos |-> at]

\* _Data.write(data): refresh(), the part of data that fits below the limit
\* is written, the rest is passed to self.next, and the cursor is moved.
DataWrite(s, key_size, f, at, data) ==
    LET r == DataSeek(s, key_size, at, s.cursor)
        fits == \/ s.limit.t = "float"
                \/ Len(data) <= s.limit.v[1] - 2 * key_size - s.cursor
        cut == s.limit.v[1] - 2 * key_size - s.cursor
        m == DataSeek(r.sec, key_size, r.pos + Len(data), s.cursor + Len(data))
    IN  IF r.status # "ok"
        THEN [status |-> r.status, sec |-> r.sec, f |-> f, pos |-> r.pos]
        ELSE IF fits
        THEN [status |-> m.status, sec |-> m.sec,
              f |-> WriteAt(f, r.pos, data), pos |-> m.pos]
        ELSE [status |-> DataNext(r.sec, key_size).status,
              sec |-> DataNext(r.sec, key_size).sec,
              f |-> WriteAt(f, r.pos, SubSeq(data, 1, cut)),
              pos |-> r.pos + cut]

\* _Data.read(n): refresh(), then up to n bytes, or with n = 0 the bytes up
\* to _size, are read from the file; a section without continuation reads
\* no further.  The cursor of the section is not moved.
DataRead(s, key_size, f, at, n) ==
    LET r == DataSeek(s, key_size, at, s.cursor)
        cut == r.sec.size - s.cursor
        got == IF n # 0 /\ n <= cut THEN ReadAt(f, r.pos, n)
               ELSE ReadAt(f, r.pos, cut)
    IN  IF r.status # "ok"
        THEN [status |-> r.status, sec |-> r.sec, data |-> <<>>, pos |-> r.pos]
        ELSE [status |-> "ok", sec |-> r.sec, data |-> got,
              pos |-> r.pos + Len(got)]

\* _Data.extend(): asserts that the limit is finite, then self.seek(
\* self.limit), which ends before anything is written or allocated.
DataExtend(s, key_size, at) ==
    IF s.limit.t = "float"
    THEN [status |-> "AssertionError", sec |-> s, pos |-> at]
    ELSE DataSeek(s, key_size, at, s.limit.v[1] - 2 * key_size)

\* _Data.close(): seek(-key_size), then _size is written in key_size bytes.
DataClose(s, key_size, f, at) ==
    LET r == DataSeek(s, key_size, at, 0 - key_size)
    IN  [status |-> r.status, sec |-> r.sec,
         f |-> WriteAt(f, r.pos, ToBytesLE(s.size, key_size)),
         pos |-> r.pos + key_size]

\* db.item = value with db._item = cur: the item held is finalized and
\* replaced, unless it is value itself; None has no finalize.
ItemSet(cur, value) ==
    IF cur = value THEN [status |-> "ok", item |-> cur, finalized |-> FALSE]
    ELSE IF cur = PyNone
    THEN [status |-> "AttributeError", item |-> cur, finalized |-> FALSE]
    ELSE [status |-> "ok", item |-> value, finalized |-> TRUE]

\* _Data.finalize(): an unbounded section gets the limit _size + 2 *
\* key_size; a bounded one passes the call to its continuation, if any.
DataFinalize(s, key_size) ==
    IF s.limit.t = "float"
    THEN [s EXCEPT !.limit = PyInt(s.size + 2 * key_size)]
    ELSE s

\* ----------------------------------------------------------- _Data (steps)

\* The positions, limits, offsets and payloads of the sections.
DataPositions == {0, 1}
DataLimits == {PyNone, PyInt(0), PyInt(4), PyInt(5), PyInt(7)}
DataOffsets == 0..3
DataPayloads == {<<9>>, <<9, 8, 7>>}
DataReads == 0..2
DataItems == {PyNone, PyStr("section")}

\* A _Data section at pos with the given limit, the one section of the run.
DataMake(pos, limit) ==
    /\ db.open
    /\ ~sec.made
    /\ sec' = DataFields(db.key_size, pos, limit).sec
    /\ dbres' = [NoDbCall EXCEPT !.op = "section",
                                 !.status = DataFields(db.key_size, pos, limit).status]
    /\ UNCHANGED <<db, dbfile, dbpos, dbitem, want, held>>
    /\ UNCHANGED otherThanData

\* section.seek(offset)
DataSeekTo(offset) ==
    /\ sec.made
    /\ sec' = DataSeek(sec, db.key_size, dbpos, offset).sec
    /\ dbpos' = DataSeek(sec, db.key_size, dbpos, offset).pos
    /\ dbres' = [NoDbCall EXCEPT !.op = "seek", !.arg = offset,
                                 !.status = DataSeek(sec, db.key_size, dbpos, offset).status]
    /\ UNCHANGED <<db, dbfile, dbitem, want, held>>
    /\ UNCHANGED otherThanData

\* section.write(data)
DataWriteBytes(data) ==
    /\ sec.made
    /\ sec.cursor + Len(data) <= MaxData
    /\ LET w == DataWrite(sec, db.key_size, dbfile, dbpos, data) IN
        /\ sec' = w.sec
        /\ dbfile' = w.f
        /\ dbpos' = w.pos
        /\ dbres' = [NoDbCall EXCEPT !.op = "datawrite", !.status = w.status,
                                     !.data = data]
    /\ UNCHANGED <<db, dbitem, want, held>>
    /\ UNCHANGED otherThanData

\* section.finalize()
DataFinalizeCall ==
    /\ sec.made
    /\ sec' = DataFinalize(sec, db.key_size)
    /\ dbres' = [NoDbCall EXCEPT !.op = "finalize", !.status = "ok"]
    /\ UNCHANGED <<db, dbfile, dbpos, dbitem, want, held>>
    /\ UNCHANGED otherThanData

\* section.read(n)
DataReadBytes(n) ==
    /\ sec.made
    /\ LET r == DataRead(sec, db.key_size, dbfile, dbpos, n) IN
        /\ sec' = r.sec
        /\ dbpos' = r.pos
        /\ dbres' = [NoDbCall EXCEPT !.op = "dataread", !.status = r.status,
                                     !.data = r.data, !.arg = n]
    /\ UNCHANGED <<db, dbfile, dbitem, want, held>>
    /\ UNCHANGED otherThanData

\* section.extend()
DataExtendCall ==
    /\ sec.made
    /\ LET r == DataExtend(sec, db.key_size, dbpos) IN
        /\ sec' = r.sec
        /\ dbpos' = r.pos
        /\ dbres' = [NoDbCall EXCEPT !.op = "extend", !.status = r.status]
    /\ UNCHANGED <<db, dbfile, dbitem, want, held>>
    /\ UNCHANGED otherThanData

\* section.close()
DataCloseCall ==
    /\ sec.made
    /\ LET r == DataClose(sec, db.key_size, dbfile, dbpos) IN
        /\ sec' = r.sec
        /\ dbfile' = r.f
        /\ dbpos' = r.pos
        /\ dbres' = [NoDbCall EXCEPT !.op = "dataclose", !.status = r.status]
    /\ UNCHANGED <<db, dbitem, want, held>>
    /\ UNCHANGED otherThanData

\* db.item = value, with value None or the section
DbItemSet(value) ==
    /\ db.open
    /\ value = PyNone \/ sec.made
    /\ LET r == ItemSet(held, value) IN
        /\ held' = r.item
        /\ sec' = IF r.finalized THEN DataFinalize(sec, db.key_size) ELSE sec
        /\ dbres' = [NoDbCall EXCEPT !.op = "item", !.status = r.status]
    /\ UNCHANGED <<db, dbfile, dbpos, dbitem, want>>
    /\ UNCHANGED otherThanData

NextData ==
    \/ \E c \in DbConfigs : DbOpen(c[1], c[2])
    \/ \E pos \in DataPositions, limit \in DataLimits : DataMake(pos, limit)
    \/ \E offset \in DataOffsets : DataSeekTo(offset)
    \/ \E data \in DataPayloads : DataWriteBytes(data)
    \/ DataFinalizeCall

SpecData == Init /\ [][NextData]_vars

\* A section that is sought, written and read.
NextRead ==
    \/ \E c \in DbConfigs : DbOpen(c[1], c[2])
    \/ \E pos \in DataPositions, limit \in DataLimits : DataMake(pos, limit)
    \/ \E offset \in DataOffsets : DataSeekTo(offset)
    \/ \E data \in DataPayloads : DataWriteBytes(data)
    \/ \E n \in DataReads : DataReadBytes(n)

SpecRead == Init /\ [][NextRead]_vars

\* A section that is written, extended, finalized and closed, by itself or
\* as the item of its store.
NextClose ==
    \/ \E c \in DbConfigs : DbOpen(c[1], c[2])
    \/ \E pos \in DataPositions, limit \in DataLimits : DataMake(pos, limit)
    \/ \E data \in DataPayloads : DataWriteBytes(data)
    \/ DataExtendCall
    \/ DataCloseCall
    \/ \E value \in DataItems : DbItemSet(value)
    \/ DataFinalizeCall

SpecClose == Init /\ [][NextClose]_vars

DataReserved(s, key_size) ==
    {s.pos + i : i \in 0..(key_size - 1)}
        \cup (IF s.limit.t = "float" THEN {}
              ELSE {s.pos + s.limit.v[1] - key_size + i : i \in 0..(key_size - 1)})

\* The number of bytes of data that fit in the section s from its cursor on.
DataRoom(s, key_size, data) ==
    IF s.limit.t = "float" \/ Len(data) <= s.limit.v[1] - 2 * key_size - s.cursor
    THEN Len(data)
    ELSE IF s.limit.v[1] - 2 * key_size - s.cursor > 0
    THEN s.limit.v[1] - 2 * key_size - s.cursor
    ELSE 0

Larger(a, b) == IF a > b THEN a ELSE b

Smaller(a, b) == IF a < b THEN a ELSE b

HoldsSize(f, at, key_size, n) == ReadAt(f, at, key_size) = ToBytesLE(n, key_size)

NoRepeat(s) == \A i, j \in DOMAIN s : s[i] = s[j] => i = j

\* C18: retrace yields finitely many nodes, whatever link, unlink, writes
\* through the adapter and loads of a snapshot have made of the tree: every
\* pass of the generator ends it or yields one more node, no node is
\* yielded twice, and no more nodes are yielded than the start node has
\* ancestors.
C18_RetraceFinite ==
    [][tres'.op = "next" =>
        /\ rt'.status # "yield" \/ Len(rt'.out) = Len(rt.out) + 1
        /\ NoRepeat(rt'.out)
        /\ Len(rt'.out) <= Len(Ancestors(rt'.start))]_vars

\* C18: a retrace of two passes has ended in a tree whose bound LinearDict
\* has loaded a snapshot.
C18_Witness ==
    /\ tres.op = "next"
    /\ rt.status = "stop"
    /\ Len(rt.out) = 2
    /\ bound
    /\ snap.recs # <<>>
    /\ ldd = snap.recs

\* ------------------------------------------- LinearDict (entry sizes)

\* bytes(2 ** e): a bytes object of 2 ** e bytes, kept by its exponent.
PyZeros(e) == [t |-> "zeros", v |-> <<e>>]

\* len(x).to_bytes(width, 'little') does not overflow: len(x) < 2 ** (8 *
\* width).  Every sequence of the model is shorter than 2 ** 16.
LenFits(x, width) ==
    IF x.t = "zeros" THEN x.v[1] < 8 * width ELSE Len(x.v) < 2 ^ 16

\* What one pass of the loop of iter_dump writes for the entry e, and how it
\* ends: the length of the key, the key, the length of the value, the
\* value, each written as soon as it is computed.
DumpEntrySized(e) ==
    IF ~LenFits(e.k, 2) THEN [status |-> "OverflowError", out |-> <<>>]
    ELSE IF ~LenFits(e.v, 4)
    THEN [status |-> "OverflowError",
          out |-> ToBytesLE(Len(e.k.v), 2) \o e.k.v]
    ELSE [status |-> "ok", out |-> DumpRecord([k |-> e.k.v, v |-> e.v.v])]

\* The loop of iter_dump over the entries m with f written so far.
RECURSIVE DumpLoopSized(_, _)
DumpLoopSized(m, f) ==
    IF m = <<>> THEN [status |-> "ok", f |-> f]
    ELSE LET r == DumpEntrySized(Head(m)) IN
         IF r.status = "ok" THEN DumpLoopSized(Tail(m), f \o r.out)
         ELSE [status |-> r.status, f |-> f \o r.out]

\* dump(): seek(0), truncate(), the header, then the loop.
IterDumpSized(m) == DumpLoopSized(m, DumpHeader(m))

\* ld[key] = value: how it ends and the mapping afterwards.
SetItemSized(m, k, v) ==
    IF ~(k.t \in {"bytes", "zeros"} /\ v.t \in {"bytes", "zeros"})
    THEN [status |-> "TypeError", d |-> m]
    ELSE IF ~LenFits(k, 2) THEN [status |-> "ValueError", d |-> m]
    ELSE IF ~LenFits(v, 4) THEN [status |-> "ValueError", d |-> m]
    ELSE [status |-> "ok", d |-> MapSet(m, k, v)]

\* The keys and values of the entries: short ones, a key of 2 ** 16 bytes
\* and a value of 2 ** 32 bytes.
SizedKeys == {PyBytes(<<1>>), PyBytes(<<2, 3>>), PyZeros(16)}
SizedValues == {PyBytes(<<>>), PyBytes(<<7, 8>>), PyZeros(32), PyStr(<<97>>)}

\* The dicts a caller hands to LinearDict(file, d): up to MaxEntries
\* entries with bytes keys and values of any length.
SizedEntries ==
    {[k |-> k, v |-> v] : k \in SizedKeys, v \in SizedValues \ {PyStr(<<97>>)}}
SizedDicts ==
    {<<>>} \cup {<<e>> : e \in SizedEntries}
    \cup (IF MaxEntries < 2 THEN {}
          ELSE {p \in {<<e1, e2>> : e1 \in SizedEntries, e2 \in SizedEntries} :
                    p[1].k # p[2].k})

\* LinearDict(file, d) with a dict d of the caller
LdWrap(d) ==
    /\ ldd' = d
    /\ own' = IF d = <<>> THEN "new" ELSE "caller"
    /\ lres' = [op |-> "wrap", status |-> "ok", empty |-> TRUE]
    /\ UNCHANGED <<pep479, file, fpos, dumped>>
    /\ UNCHANGED otherThanLd

\* ld[key] = value
LdSetSized(k, v) ==
    /\ k \in MapKeys(ldd) \/ Len(ldd) < MaxEntries
    /\ ldd' = SetItemSized(ldd, k, v).d
    /\ lres' = [op |-> "setsized", status |-> SetItemSized(ldd, k, v).status,
                empty |-> TRUE]
    /\ UNCHANGED <<pep479, file, fpos, own, dumped>>
    /\ UNCHANGED otherThanLd

\* ld.dump()
LdDumpSized ==
    /\ file' = IterDumpSized(ldd).f
    /\ fpos' = Len(file')
    /\ dumped' = [valid |-> IterDumpSized(ldd).status = "ok", d |-> ldd,
                  cut |-> -1]
    /\ lres' = [op |-> "dumpsized", status |-> IterDumpSized(ldd).status,
                empty |-> TRUE]
    /\ UNCHANGED <<pep479, ldd, own>>
    /\ UNCHANGED otherThanLd

NextSized ==
    \/ \E d \in SizedDicts : LdWrap(d)
    \/ \E k \in SizedKeys, v \in SizedValues : LdSetSized(k, v)
    \/ LdDumpSized

SpecSized == Init /\ [][NextSized]_vars

\* The entry e has a key of 2 ** 16 bytes or more, or a value of 2 ** 32
\* bytes or more.
Oversized(e) == ~LenFits(e.k, 2) \/ ~LenFits(e.v, 4)

\* The entries of m before its first oversized entry, as pairs of byte
\* sequences.
RECURSIVE SizedPrefix(_)
SizedPrefix(m) ==
    IF m = <<>> \/ Oversized(Head(m)) THEN <<>>
    ELSE <<[k |-> Head(m).k.v, v |-> Head(m).v.v]>> \o SizedPrefix(Tail(m))

\* C25: a dump of a mapping that holds an oversized entry fails, and the
\* file is then the header followed by the complete records of the entries
\* before the first oversized one, and nothing else.
C25_NoPartialRecord ==
    (lres.op = "dumpsized" /\ \E i \in DOMAIN ldd : Oversized(ldd[i])) =>
        /\ lres.status # "ok"
        /\ file = DumpHeader(ldd) \o DumpRecords(SizedPrefix(ldd))

\* ------------------------------------- LinearDict (incremental dump)

\* g = ld.iter_dump(); next(g): the body starts with seek(0) and
\* truncate() and reaches `with self._lock`.
IterDumpStart(t) ==
    /\ t \in Dumpers
    /\ th[t].pc = "idle"
    /\ file' = <<>>
    /\ fpos' = 0
    /\ th' = [th EXCEPT ![t] = [Idle EXCEPT !.pc = "gen_wait"]]
    /\ UNCHANGED <<pep479, ldd, own, lres, dumped>>
    /\ UNCHANGED <<lock, acc>>
    /\ UNCHANGED otherThanThreads

\* iter_dump: the lock is acquired and the header written.
IterDumpAcquire(t) ==
    /\ th[t].pc = "gen_wait"
    /\ lock = 0
    /\ lock' = t
    /\ acc' = [t |-> t, op |-> "dump", locked |-> TRUE]
    /\ file' = WriteAt(file, fpos, DumpHeader(ldd))
    /\ fpos' = fpos + 8
    /\ th' = [th EXCEPT ![t].pc = "gen_run", ![t].i = 0, ![t].n = Len(ldd)]
    /\ UNCHANGED <<pep479, ldd, own, lres, dumped>>
    /\ UNCHANGED otherThanThreads

\* iter_dump runs to its next yield, inside the with block, or to its end
\* (the last entry is behind it, or the dict changed size), where the with
\* block is left and the lock released.
IterDumpStep(t) ==
    /\ th[t].pc = "gen_run"
    /\ acc' = Access(t, "dump")
    /\ IF Len(ldd) = th[t].n /\ th[t].i < th[t].n
       THEN /\ file' = WriteAt(file, fpos, DumpRecord(ldd[th[t].i + 1]))
            /\ fpos' = fpos + Len(DumpRecord(ldd[th[t].i + 1]))
            /\ th' = [th EXCEPT ![t].i = th[t].i + 1, ![t].pc = "gen_yield"]
            /\ UNCHANGED lock
       ELSE /\ lock' = 0
            /\ th' = [th EXCEPT ![t] = Idle]
            /\ UNCHANGED <<file, fpos>>
    /\ UNCHANGED <<pep479, ldd, own, lres, dumped>>
    /\ UNCHANGED otherThanThreads

\* The consumer has its progress step and calls next(g) again.
ConsumerNext(t) ==
    /\ th[t].pc = "gen_yield"
    /\ th' = [th EXCEPT ![t].pc = "gen_run"]
    /\ UNCHANGED <<lock, acc, ldVars>>
    /\ UNCHANGED otherThanThreads

\* The consumer reads ld[k] between two progress steps: __getitem__ reaches
\* `with self._lock` in the thread whose generator holds the lock.
ConsumerGet(t, k) ==
    /\ th[t].pc = "gen_yield"
    /\ th' = [th EXCEPT ![t].pc = "get_wait", ![t].k = k]
    /\ UNCHANGED <<lock, acc, ldVars>>
    /\ UNCHANGED otherThanThreads

\* The consumer stops iterating before the end: it drops the generator,
\* which is closed and leaves the with block, or keeps a reference to the
\* generator, which stays suspended inside the with block.
ConsumerStop(t, dropped) ==
    /\ th[t].pc = "gen_yield"
    /\ th' = [th EXCEPT ![t] = Idle]
    /\ lock' = IF dropped THEN 0 ELSE lock
    /\ UNCHANGED <<acc, ldVars>>
    /\ UNCHANGED otherThanThreads

\* What the consumer of an incremental dump does next.
ConsumerMove(t) ==
    \/ ConsumerNext(t)
    \/ \E k \in ThKeys : ConsumerGet(t, k)
    \/ \E dropped \in BOOLEAN : ConsumerStop(t, dropped)

NextIter ==
    \E t \in Threads :
        \/ \E k \in ThKeys : GetCall(t, k)
        \/ GetAcquire(t)
        \/ GetRead(t)
        \/ \E k \in ThKeys, v \in ThValues : SetCall(t, k, v)
        \/ SetAcquire(t)
        \/ SetWrite(t)
        \/ IterDumpStart(t)
        \/ IterDumpAcquire(t)
        \/ IterDumpStep(t)
        \/ ConsumerNext(t)
        \/ \E k \in ThKeys : ConsumerGet(t, k)
        \/ \E dropped \in BOOLEAN : ConsumerStop(t, dropped)

SpecIter == Init /\ [][NextIter]_vars

\* Every thread that can run does run, a thread that waits for the lock gets
\* it when it is free again and again, and the consumer of a dump does not
\* pause forever.
FairIter ==
    \A t \in Threads :
        /\ WF_vars(GetRead(t))
        /\ WF_vars(SetWrite(t))
        /\ WF_vars(IterDumpStep(t))
        /\ SF_vars(GetAcquire(t))
        /\ SF_vars(SetAcquire(t))
        /\ SF_vars(IterDumpAcquire(t))
        /\ WF_vars(ConsumerMove(t))

LiveIter == SpecIter /\ FairIter

\* C27: a lock that is held is released, and a thread that waits for the
\* lock in __getitem__ or __setitem__ gets it.
C27_DumpReleasesLock ==
    /\ (lock # 0) ~> (lock = 0)
    /\ \A t \in Threads :
          (th[t].pc \in {"get_wait", "set_wait"})
              ~> (th[t].pc \in {"get_in", "set_in"})

\* C28: every key of the node map of a tree is the digest of the node
\* stored under it, whatever link, unlink, writes through the adapter and
\* loads of a snapshot have been made.
C28_KeyIsDigest ==
    made => \A k \in DOMAIN nodes : nodes[k].sha = k

\* C28: a record has been written through the adapter of a tree that holds
\* a chain of nodes and is bound to a LinearDict.
C28_Witness ==
    /\ made
    /\ tres.op = "setitem"
    /\ bound
    /\ Cardinality(DOMAIN nodes) >= 2

\* ------------------------------------------- LinearDict (longer files)

\* The bytes a file holds after the records its header counts: one more
\* record, under a new key or under a key of the dump, or a single byte.
FileTails ==
    {DumpRecord([k |-> <<9>>, v |-> <<5>>]),
     DumpRecord([k |-> <<1>>, v |-> <<5>>]),
     <<1>>}

\* The file of a dump is given to a new LinearDict with the bytes tail
\* after its last record.
FileTail(tail) ==
    /\ lres.op = "dump"
    /\ file' = file \o tail
    /\ fpos' = 0
    /\ ldd' = <<>>
    /\ own' = "new"
    /\ lres' = [op |-> "tail", status |-> "ok", empty |-> TRUE]
    /\ UNCHANGED <<pep479, dumped>>
    /\ UNCHANGED otherThanLd

NextTail ==
    \/ \E k \in LdKeys, v \in LdValues : LdSetItem(k, v)
    \/ LdDump
    \/ \E tail \in FileTails : FileTail(tail)
    \/ LdLoad

SpecTail == Init /\ [][NextTail]_vars

\* The count the header of the file f declares.
HeaderCount(f) == FromBytesLE(ReadAt(f, 0, 8))

\* C29: after load() of a file that begins with the dump of a mapping, the
\* header and the records it counts, the mapping holds as many entries as
\* the header declares, and they are the pairs of the dumped mapping,
\* whatever bytes follow the last record.
C29_LoadStopsAtCount ==
    ( /\ lres.op = "load"
      /\ dumped.valid
      /\ dumped.cut = -1
      /\ SubSeq(file, 1, Len(IterDumpAll(dumped.d))) = IterDumpAll(dumped.d) )
    => /\ Len(ldd) = HeaderCount(file)
       /\ MapPairs(ldd) = MapPairs(dumped.d)

\* C30: bit(i, 0) right after a bit(i, 1) that succeeded ends well, bit(i)
\* then returns 0, and bit(j) returns what it returned before for every
\* other index j.
C30_ClearAfterSet ==
    [][( /\ bres.op = "bit" /\ bres.v = PyInt(1) /\ bres.status = "ok"
         /\ bres'.op = "bit" /\ bres'.v = PyInt(0) /\ bres'.n = bres.n
         /\ bres.n \in BitIndices(ba) ) =>
        /\ bres'.status = "ok"
        /\ ByteArrayBit(ba', bres'.n, PyNone).ret = PyInt(0)
        /\ \A j \in BitIndices(ba) \ {bres'.n} :
              ByteArrayBit(ba', j, PyNone).ret = ByteArrayBit(ba, j, PyNone).ret]_vars

====
